---- MODULE Spec2Model ----
(***************************************************************************)
(* The presigned-transfer workflow of web/file.go: single and batch        *)
(* upload start, the client's direct PUT, upload finish and file delete,   *)
(* over the File table, the uploads and files buckets and the per-user     *)
(* usage accounting.                                                       *)
(*                                                                         *)
(* Each HTTP handler is one atomic action.  A panic aborts the handler at  *)
(* the point it is raised: what was written before it stays written.       *)
(* The tube and storage packages are collaborators of the handlers; their  *)
(* operations are modelled by what the design document says they do.       *)
(***************************************************************************)
EXTENDS Integers, Sequences, FiniteSets, TLC

\* ---------------------------------------------------------------- bounds
MaxFiles  == 2      \* File ids that NewFile can hand out
MaxBatch  == 2      \* longest uploadStart2 input
MaxTracks == 2      \* completed handleUpload calls

\* ------------------------------------------------------------- constants
maxFileSize == 500000000

Users    == {1, 2}
FileIds  == 1..MaxFiles
\* CalcQuota(): user 1 has a byte ceiling, user 2 is unlimited
Quota    == [u \in Users |-> IF u = 1 THEN 1000000 ELSE 0]
\* sizes a client declares at start: missing, ordinary, over the cap
DeclaredSizes == {0, 900000, maxFileSize + 1}
\* the mime type a client declares at start
DeclaredType  == "audio/mpeg"

NoFile   == [none |-> TRUE]
NoObject == [none |-> TRUE]
\* what the storage backend can report for an uploaded object: an empty one,
\* an ordinary one, and one over the cap
Objects  == {[Size |-> 0, Type |-> "audio/flac"],
             [Size |-> 900000, Type |-> "audio/mpeg"],
             [Size |-> maxFileSize + 1, Type |-> "audio/flac"]}
\* an object left in the uploads bucket by something other than this workflow
StrayObject == [Size |-> 900000, Type |-> "audio/mpeg"]

VARIABLES
    files,        \* File table: id -> record or NoFile
    uploads,      \* storage.UploadsBucket: upload path -> object or NoObject
    filesBucket,  \* storage.FilesBucket: set of occupied keys
    presigned,    \* upload paths a presigned PUT URL was issued for
    usage,        \* User.Usage
    quota,        \* User.CalcQuota()
    lastMod,      \* User last-modified marker, as a count of UpdateLastMod calls
    tracks,       \* per File id, completed handleUpload calls
    last,         \* the response of the request served last
    now,          \* time.Now(), in hours
    b2,           \* the user's stored B2Token and B2Expire
    issued,       \* the token/expiry pairs the storage backend has issued
    ret,          \* what the last refreshB2Token call returned
    pc,           \* concurrent refreshB2Token calls: where each one stands
    loc,          \* concurrent refreshB2Token calls: the locals of each one
    signed,       \* the URLs and cookie sets signed so far
    filename,     \* the argument of the last encodeContentDisp call
    disp          \* the value the last encodeContentDisp call returned

uploadVars == <<files, uploads, filesBucket, presigned, usage, quota, lastMod, tracks, last>>
tokenVars  == <<b2, issued, ret, pc, loc>>
signVars   == <<signed>>
dispVars   == <<filename, disp>>
vars == <<uploadVars, now, tokenVars, signVars, dispVars>>

\* ------------------------------------------------------ tube.File helpers
Path(id)   == <<"up", id>>
B2Path(id) == <<"tracks", id>>
UploadPaths == {Path(id) : id \in FileIds}

NewFile(u, size) ==
    [UserID |-> u, Size |-> size, Type |-> "", Finished |-> FALSE, Deleted |-> FALSE]

FreeIds(fs) == {id \in FileIds : fs[id] = NoFile}
\* the id NewFile generates: one no record has
NewID(fs) == CHOOSE id \in FreeIds(fs) : \A o \in FreeIds(fs) : id <= o

Create(fs, id, zf) == [fs EXCEPT ![id] = zf]

Finish(fs, id, type, size) ==
    [fs EXCEPT ![id].Finished = TRUE, ![id].Type = type, ![id].Size = size]

Delete(fs, id) == [fs EXCEPT ![id].Deleted = TRUE]

\* ------------------------------------------------------- storage helpers
Exists(bucket, path) == bucket[path] # NoObject
HeadFails(bucket, path) == bucket[path] = NoObject
HeadObject(bucket, path) == bucket[path]
DeleteObject(bucket, path) == [bucket EXCEPT ![path] = NoObject]

\* ------------------------------------------------- conditions of file.go
SizeMissing(size) == size = 0

TooBigMiB(size) == size > 500 * 1024 * 1024
TooBig(size) == size > maxFileSize

StartQuotaExceededNoZero(use, size, q) == use + size > q
StartQuotaExceeded(use, size, q) == (q # 0) /\ (use + size > q)

Start2QuotaExceeded(use, totalsize, q) == (q # 0) /\ (use + totalsize > q)

StartCollision(bucket, path) == Exists(bucket, path)

Start2CollisionSkipped(bucket, path) == FALSE
Start2Collision(bucket, path) == Exists(bucket, path)

FinishForbiddenOwnerOnly(f, u) == f.UserID # u
FinishForbidden(f, u) == f.Deleted \/ f.UserID # u

DeleteForbiddenNever(f, u) == FALSE
DeleteForbidden(f, u) == f.UserID # u

HeadFailedAfterFinish(st, id) ==
    [st EXCEPT !.files = Finish(st.files, id, st.files[id].Type, st.files[id].Size)]
\* what uploadFinish has written when Head fails: nothing, Finish comes later
HeadFailedState(st, id) == st

FinishArgsDeclared(f, head) == [Type |-> f.Type, Size |-> f.Size]
\* what uploadFinish hands to File.Finish
FinishArgs(f, head) == [Type |-> head.Type, Size |-> head.Size]

OversizeDeleteUploads == "uploads"
\* the bucket uploadFinish deletes the oversized object from
OversizeDeleteBucket == "files"

\* a response: the handler, the calling user, how it ended, the declared size
\* (start; the batch's total for start2) or the File id (finish, delete) of
\* the request, and the body
Response(op, u, status, size, id, body) ==
    [op |-> op, user |-> u, status |-> status, size |-> size, id |-> id, body |-> body]

\* ------------------------------------------------- refreshB2Token values
MaxProcs == 2        \* concurrent refreshB2Token calls for the user
Procs == 1..MaxProcs
\* u.B2Token == ""
NoToken == 0
\* a user that never had a token: empty token, zero expiry
NoB2 == [Token |-> NoToken, Expire |-> 0]
NoReturn == [op |-> "none", fudge |-> 0, result |-> "none", called |-> FALSE]
NoDisp == [fallback |-> <<>>, extended |-> <<>>]

\* ------------------------------------------------------------------ Init
Init ==
    /\ files = [id \in FileIds |-> NoFile]
    /\ \E stray \in SUBSET {Path(MaxFiles)} :
           uploads = [p \in UploadPaths |-> IF p \in stray THEN StrayObject ELSE NoObject]
    /\ filesBucket = {}
    /\ presigned = {}
    /\ usage = [u \in Users |-> 0]
    /\ quota = Quota
    /\ lastMod = [u \in Users |-> 0]
    /\ tracks = [id \in FileIds |-> 0]
    /\ last = Response("init", 0, "none", 0, 0, "none")
    /\ now = 0
    /\ b2 = NoB2
    /\ issued = {}
    /\ ret = NoReturn
    /\ pc = [p \in Procs |-> "idle"]
    /\ loc = [p \in Procs |-> NoB2]
    /\ signed = {}
    /\ filename = <<>>
    /\ disp = NoDisp

\* ----------------------------------------------------------- uploadStart
StartFaults == {"none", "create", "presign"}

uploadStart ==
    \E u \in Users, size \in DeclaredSizes, fault \in StartFaults :
        /\ FreeIds(files) # {}
        /\ LET id == NewID(files)
               zf == [NewFile(u, size) EXCEPT !.Type = DeclaredType]
               status ==
                   IF SizeMissing(size) THEN "missing_size"
                   ELSE IF TooBig(size) THEN "too_big"
                   ELSE IF StartQuotaExceeded(usage[u], size, quota[u]) THEN "quota"
                   ELSE IF fault = "create" THEN "upstream"
                   ELSE IF StartCollision(uploads, Path(id)) THEN "collision"
                   ELSE IF fault = "presign" THEN "upstream"
                   ELSE "ok"
               created == status \in {"collision", "ok"} \/ (status = "upstream" /\ fault = "presign")
           IN  /\ files' = IF created THEN Create(files, id, zf) ELSE files
               /\ presigned' = IF status = "ok" THEN presigned \cup {Path(id)} ELSE presigned
               /\ last' = Response("start", u, status, size, 0,
                                   IF status = "ok" THEN "url" ELSE "none")
        /\ UNCHANGED <<uploads, filesBucket, usage, quota, lastMod, tracks>>
        /\ UNCHANGED <<now, tokenVars, signVars, dispVars>>

\* ---------------------------------------------------------- uploadStart2
Items == [Size : DeclaredSizes, Type : {DeclaredType}]
Batches == UNION {[1..n -> Items] : n \in 0..MaxBatch}
Start2Faults == [kind : {"create", "presign"}, at : 1..MaxBatch] \cup {[kind |-> "none", at |-> 0]}

\* the loop over the input, from item i on: the File table and the presigned
\* paths it leaves, and how it ended ("done" when it ran to the end)
RECURSIVE Start2Loop(_, _, _, _, _, _)
Start2Loop(u, input, i, fault, fs, ps) ==
    IF i > Len(input) THEN [status |-> "done", files |-> fs, presigned |-> ps]
    ELSE IF SizeMissing(input[i].Size) THEN [status |-> "missing_size", files |-> fs, presigned |-> ps]
    ELSE IF TooBig(input[i].Size) THEN [status |-> "too_big", files |-> fs, presigned |-> ps]
    ELSE IF fault = [kind |-> "create", at |-> i] THEN [status |-> "upstream", files |-> fs, presigned |-> ps]
    ELSE LET id  == NewID(fs)
             zf  == [NewFile(u, input[i].Size) EXCEPT !.Type = input[i].Type]
             fs1 == Create(fs, id, zf)
         IN  IF Start2Collision(uploads, Path(id)) THEN [status |-> "collision", files |-> fs1, presigned |-> ps]
             ELSE IF fault = [kind |-> "presign", at |-> i] THEN [status |-> "upstream", files |-> fs1, presigned |-> ps]
             ELSE Start2Loop(u, input, i + 1, fault, fs1, ps \cup {Path(id)})

RECURSIVE SumSizes(_, _)
SumSizes(input, n) == IF n = 0 THEN 0 ELSE input[n].Size + SumSizes(input, n - 1)

uploadStart2 ==
    \E u \in Users, input \in Batches, fault \in Start2Faults :
        /\ Len(input) <= Cardinality(FreeIds(files))
        /\ LET loop == Start2Loop(u, input, 1, fault, files, presigned)
               totalsize == SumSizes(input, Len(input))
               status ==
                   IF loop.status # "done" THEN loop.status
                   ELSE IF Start2QuotaExceeded(usage[u], totalsize, quota[u]) THEN "quota"
                   ELSE "ok"
           IN  /\ files' = loop.files
               /\ presigned' = loop.presigned
               /\ last' = Response("start2", u, status, totalsize, 0,
                                   IF status = "ok" THEN "urls" ELSE "none")
        /\ UNCHANGED <<uploads, filesBucket, usage, quota, lastMod, tracks>>
        /\ UNCHANGED <<now, tokenVars, signVars, dispVars>>

\* ------------------------------------------- the client's direct upload
\* PUT to a presigned URL, which authorizes a single upload; the client may
\* send any body, whatever it declared
ClientPut ==
    \E path \in presigned, obj \in Objects :
        /\ uploads[path] = NoObject
        /\ uploads' = [uploads EXCEPT ![path] = obj]
        /\ last' = Response("put", 0, "ok", 0, 0, "none")
        /\ UNCHANGED <<files, filesBucket, presigned, usage, quota, lastMod, tracks>>
        /\ UNCHANGED <<now, tokenVars, signVars, dispVars>>

\* ---------------------------------------------------------- uploadFinish
FinishFaults == {"none", "finish", "handle", "lastmod"}
BatchIds == {"", "b1"}

TotalTracks == LET RECURSIVE Sum(_)
                   Sum(n) == IF n = 0 THEN 0 ELSE tracks[n] + Sum(n - 1)
               IN  Sum(MaxFiles)

\* handleUpload turns the finished File into a Track stored under its own key
\* and accounts the File's size to the user
handleUpload(st, id, u) ==
    [st EXCEPT !.tracks = [st.tracks EXCEPT ![id] = @ + 1],
               !.filesBucket = st.filesBucket \cup {B2Path(id)},
               !.usage = [st.usage EXCEPT ![u] = @ + st.files[id].Size]]

UpdateLastMod(st, u) == [st EXCEPT !.lastMod = [st.lastMod EXCEPT ![u] = @ + 1]]

\* the state and response uploadFinish leaves
FinishOutcome(u, id, bID, fault) ==
    LET st0 == [files |-> files, uploads |-> uploads, filesBucket |-> filesBucket,
                usage |-> usage, lastMod |-> lastMod, tracks |-> tracks]
        stop(st, status) == [st |-> st, status |-> status, body |-> "none"]
    IN  IF bID = "" THEN stop(st0, "no_bid")
        ELSE IF files[id] = NoFile THEN stop(st0, "not_found")
        ELSE IF FinishForbidden(files[id], u) THEN stop(st0, "forbidden")
        ELSE IF HeadFails(uploads, Path(id)) THEN stop(HeadFailedState(st0, id), "head_failed")
        ELSE IF fault = "finish" THEN stop(st0, "upstream")
        ELSE
        LET head == HeadObject(uploads, Path(id))
            args == FinishArgs(files[id], head)
            st1  == [st0 EXCEPT !.files = Finish(files, id, args.Type, args.Size)]
            over == TooBig(head.Size)
            st2  == IF ~over THEN st1
                    ELSE IF OversizeDeleteBucket = "files"
                         THEN [st1 EXCEPT !.filesBucket = st1.filesBucket \ {Path(id)}]
                         ELSE [st1 EXCEPT !.uploads = DeleteObject(st1.uploads, Path(id))]
            \* the 400 is written and the handler goes on
            sent == IF over THEN "too_big" ELSE "ok"
            fail == IF over THEN "too_big" ELSE "upstream"
        IN  IF fault = "handle" THEN stop(st2, fail)
            ELSE LET st3 == handleUpload(st2, id, u)
                 IN  IF fault = "lastmod" THEN stop(st3, fail)
                     ELSE [st |-> UpdateLastMod(st3, u), status |-> sent, body |-> "track"]

uploadFinish ==
    \E u \in Users, id \in FileIds, bID \in BatchIds, fault \in FinishFaults :
        /\ TotalTracks < MaxTracks
        /\ LET out == FinishOutcome(u, id, bID, fault)
           IN  /\ files' = out.st.files
               /\ uploads' = out.st.uploads
               /\ filesBucket' = out.st.filesBucket
               /\ usage' = out.st.usage
               /\ lastMod' = out.st.lastMod
               /\ tracks' = out.st.tracks
               /\ last' = Response("finish", u, out.status, 0, id, out.body)
        /\ UNCHANGED <<presigned, quota>>
        /\ UNCHANGED <<now, tokenVars, signVars, dispVars>>

\* ------------------------------------------------------------ DeleteFile
DeleteFaults == {"none", "delete"}

DeleteFile ==
    \E u \in Users, id \in FileIds, fault \in DeleteFaults :
        LET status ==
                IF files[id] = NoFile THEN "not_found"
                ELSE IF DeleteForbidden(files[id], u) THEN "forbidden"
                ELSE IF fault = "delete" THEN "upstream"
                ELSE "see_other"
        IN  /\ files' = IF status = "see_other" THEN Delete(files, id) ELSE files
            /\ uploads' = IF status = "see_other" THEN DeleteObject(uploads, Path(id)) ELSE uploads
            /\ last' = Response("delete", u, status, 0, id, "none")
            /\ UNCHANGED <<filesBucket, presigned, usage, quota, lastMod, tracks>>
            /\ UNCHANGED <<now, tokenVars, signVars, dispVars>>

\* ------------------------------------------------------------------ Spec
Next ==
    \/ uploadStart
    \/ uploadStart2
    \/ ClientPut
    \/ uploadFinish
    \/ DeleteFile

Spec == Init /\ [][Next]_vars

TypeOK ==
    /\ \A id \in FileIds : files[id] = NoFile \/ files[id].UserID \in Users
    /\ \A p \in UploadPaths : uploads[p] = NoObject \/ uploads[p] \in Objects
    /\ presigned \subseteq UploadPaths
    /\ \A u \in Users : usage[u] >= 0

\* ================================================================ claims
NothingCreated == files' = files /\ presigned' = presigned

\* C1: a batch whose total declared size would exceed a non-zero quota is
\* rejected, and no File record was created and no presigned PUT was issued
\* for it.
C1_BatchOverQuotaCreatesNothing ==
    [][(/\ last'.op = "start2"
        /\ quota[last'.user] # 0
        /\ usage[last'.user] + last'.size > quota[last'.user])
       => (last'.status # "ok" /\ NothingCreated)]_vars

\* C2: a batch rejected for an item of size 0 or over the cap has created no
\* File record and issued no presigned PUT, also for the items before it.
C2_BatchBadSizeCreatesNothing ==
    [][(last'.op = "start2" /\ last'.status \in {"missing_size", "too_big"})
       => NothingCreated]_vars

\* C3: a finish that observes a size over the cap deletes the object Head saw in
\* the uploads bucket and leaves the record not finished.
C3_OversizeDeletesUploadAndStaysPending ==
    [][(last'.op = "finish" /\ last'.status = "too_big")
       => (/\ uploads'[Path(last'.id)] = NoObject
           /\ ~files'[last'.id].Finished)]_vars

\* C4: a finish call on a record that is already finished is rejected: it does
\* not succeed, does not touch the record and adds nothing to the usage.
C4_FinishAtMostOnce ==
    [][(/\ last'.op = "finish"
        /\ files[last'.id] # NoFile
        /\ files[last'.id].Finished)
       => (/\ last'.status # "ok"
           /\ last'.body = "none"
           /\ files' = files
           /\ usage' = usage)]_vars

\* C5: the usage of a user with a non-zero quota never exceeds the quota.
C5_UsageWithinQuota ==
    \A u \in Users : quota[u] # 0 => usage[u] <= quota[u]

\* C6: a successful finish stores the size and type Head observed in the record
\* and adds exactly the observed size to the usage of the caller.
C6_FinishStoresObserved ==
    [][(last'.op = "finish" /\ last'.status = "ok")
       => LET id   == last'.id
              head == uploads[Path(id)]
          IN  /\ head # NoObject
              /\ files'[id].Finished
              /\ files'[id].Size = head.Size
              /\ files'[id].Type = head.Type
              /\ usage'[last'.user] = usage[last'.user] + head.Size
              /\ \A o \in Users \ {last'.user} : usage'[o] = usage[o]]_vars

\* a finish succeeded on an empty object uploaded for a record declared non-empty
\* and with another type: the usage did not grow
C6_Witness ==
    /\ last.op = "finish" /\ last.status = "ok"
    /\ files[last.id].Size = 0
    /\ files[last.id].Type # DeclaredType
    /\ usage[last.user] = 0

\* C7: every finished File record that is not deleted has an object at its
\* path in the uploads bucket.
C7_FinishedHasObject ==
    \A id \in FileIds :
        (files[id] # NoFile /\ files[id].Finished /\ ~files[id].Deleted)
            => uploads[Path(id)] # NoObject

\* a finished, live record whose object is over the cap: the oversize branch ran
C7_Witness ==
    \E id \in FileIds :
        /\ files[id] # NoFile /\ files[id].Finished /\ ~files[id].Deleted
        /\ files[id].Size > maxFileSize
        /\ uploads[Path(id)] # NoObject

\* C8: a single start over a non-zero quota is answered with the quota error and
\* creates nothing; with quota 0 the quota error is never given.
C8_StartOverQuotaIsNoOp ==
    [][last'.op = "start"
       => LET u == last'.user
              size == last'.size
          IN  /\ (last'.status = "quota" => (NothingCreated /\ last'.body = "none"))
              /\ (/\ size # 0 /\ size <= maxFileSize
                  /\ quota[u] # 0 /\ usage[u] + size > quota[u])
                    => last'.status = "quota"
              /\ quota[u] = 0 => last'.status # "quota"]_vars

\* quota 1,000,000 with 900,000 used: a start declaring 900,000 more was refused
C8_Witness ==
    /\ last.op = "start" /\ last.status = "quota"
    /\ quota[last.user] = 1000000 /\ usage[last.user] = 900000 /\ last.size = 900000

\* C9: a single start declaring size 0 is refused as missing, one declaring more
\* than the cap as too big, whatever the usage and quota; neither creates a record.
C9_StartBadSizeRejected ==
    [][last'.op = "start"
       => /\ last'.size = 0 => (last'.status = "missing_size" /\ NothingCreated)
          /\ last'.size > maxFileSize => (last'.status = "too_big" /\ NothingCreated)]_vars

\* an unlimited user was refused a declared size over the cap
C9_Witness ==
    /\ last.op = "start" /\ last.status = "too_big"
    /\ quota[last.user] = 0 /\ last.size > maxFileSize

\* C10: a presigned PUT is issued only for a path with no object in the uploads
\* bucket; a start that finds its path occupied aborts without returning a URL.
C10_PresignOnlyFreePath ==
    [][/\ \A p \in presigned' \ presigned : uploads[p] = NoObject
       /\ (last'.op \in {"start", "start2"} /\ last'.status = "collision")
            => last'.body = "none"
       /\ (/\ last'.op = "start"
           /\ FreeIds(files) # {}
           /\ uploads[Path(NewID(files))] # NoObject)
            => (last'.status # "ok" /\ presigned' = presigned)]_vars

\* a batch whose second item met an occupied path: the first item's URL was
\* issued, none for the occupied path
C10_Witness ==
    /\ last.op = "start2" /\ last.status = "collision"
    /\ presigned # {}
    /\ \E p \in UploadPaths : uploads[p] # NoObject /\ p \notin presigned

FinishWroteNothing ==
    /\ files' = files /\ uploads' = uploads /\ filesBucket' = filesBucket
    /\ usage' = usage /\ lastMod' = lastMod /\ tracks' = tracks

\* C11: a finish on a record that is missing, deleted or owned by another user
\* is rejected and writes nothing: record, storage, usage and processing are as
\* before; a deleted record that was not finished never becomes finished.
C11_FinishRejectsForeign ==
    [][/\ (/\ last'.op = "finish"
           /\ \/ files[last'.id] = NoFile
              \/ files[last'.id].Deleted
              \/ files[last'.id].UserID # last'.user)
            => /\ last'.status \in {"no_bid", "not_found", "forbidden"}
               /\ (last'.status # "no_bid" /\ files[last'.id] = NoFile)
                    => last'.status = "not_found"
               /\ (last'.status # "no_bid" /\ files[last'.id] # NoFile)
                    => last'.status = "forbidden"
               /\ last'.body = "none"
               /\ FinishWroteNothing
       /\ \A id \in FileIds :
            (files[id] # NoFile /\ files[id].Deleted /\ ~files[id].Finished)
                => ~files'[id].Finished]_vars

\* the owner's finish on a deleted record was refused although an object had
\* been uploaded to its path again
C11_Witness ==
    /\ last.op = "finish" /\ last.status = "forbidden"
    /\ files[last.id].Deleted /\ ~files[last.id].Finished
    /\ files[last.id].UserID = last.user
    /\ uploads[Path(last.id)] # NoObject

\* C12: DeleteFile by a user who does not own the record answers Forbidden and
\* changes neither the record nor its object; a record becomes deleted only in
\* a DeleteFile call of its owner.
C12_DeleteOnlyByOwner ==
    [][/\ (/\ last'.op = "delete"
           /\ files[last'.id] # NoFile
           /\ files[last'.id].UserID # last'.user)
            => (last'.status = "forbidden" /\ files' = files /\ uploads' = uploads)
       /\ \A id \in FileIds :
            (files[id] # NoFile /\ ~files[id].Deleted /\ files'[id].Deleted)
                => /\ last'.op = "delete" /\ last'.id = id
                   /\ last'.user = files[id].UserID]_vars

\* another user's delete was refused on a live record with an uploaded object
C12_Witness ==
    /\ last.op = "delete" /\ last.status = "forbidden"
    /\ ~files[last.id].Deleted
    /\ uploads[Path(last.id)] # NoObject

\* C18: a finish that observes a size over the cap ends with the rejection
\* only: usage and last-modified marker are as before, no handleUpload ran and
\* no track is returned.
C18_OversizeRollsBack ==
    [][(last'.op = "finish" /\ last'.status = "too_big")
       => (/\ usage' = usage
           /\ lastMod' = lastMod
           /\ tracks' = tracks
           /\ last'.body = "none")]_vars

\* C20: Head comes before the transition: a finish by the owner on a live record
\* with no uploaded object aborts on the Head error, and the record, the usage
\* and the processing are as before, the record still unfinished.
C20_HeadBeforeFinish ==
    [][(/\ last'.op = "finish"
        /\ last'.status # "no_bid"
        /\ files[last'.id] # NoFile
        /\ ~files[last'.id].Deleted
        /\ files[last'.id].UserID = last'.user
        /\ uploads[Path(last'.id)] = NoObject)
       => (/\ last'.status = "head_failed"
           /\ last'.body = "none"
           /\ FinishWroteNothing
           /\ ~files'[last'.id].Finished)]_vars

\* the owner asked to finish a pending record it never uploaded
C20_Witness ==
    /\ last.op = "finish" /\ last.status = "head_failed"
    /\ ~files[last.id].Finished /\ files[last.id].Size = 900000
    /\ Path(last.id) \in presigned
    /\ uploads[Path(last.id)] = NoObject

\* ======================================================== refreshB2Token
MaxTokenClock == 5   \* hours the clock runs while tokens are refreshed
MaxIssued == 3       \* tokens the backend issues
\* hours a token issued by the storage backend lives
TokenTTL == 3
\* the safety margins callers pass
Fudges == {0, 2}
RefreshFaults == {"none", "create", "set"}

TokenUsableMarginAhead(tok, exp, t, fudge) == tok # NoToken /\ (t + fudge) < exp
\* now := time.Now().UTC().Add(-fudge); u.B2Token != "" && now.Before(u.B2Expire)
TokenUsable(tok, exp, t, fudge) == tok # NoToken /\ (t - fudge) < exp

\* the backend issues a token not issued before, with its own expiry
createB2Token(t, iss) == [Token |-> Cardinality(iss) + 1, Expire |-> t + TokenTTL]

\* persists both fields on the user record
SetB2Token(rec, token, expire) == [rec EXCEPT !.Token = token, !.Expire = expire]

SetArgsStaleExpire(new, u) == [Token |-> new.Token, Expire |-> u.Expire]
\* what refreshB2Token hands to SetB2Token: the pair createB2Token returned
SetArgs(new, u) == new

OnCreateErrorSwallowed(u) == [b2 |-> u, result |-> "nil"]
\* createB2Token failed: its error is returned, the user is left as it was
OnCreateError(u) == [b2 |-> u, result |-> "create_error"]

\* the user record, the issued tokens and the return value a call leaves
RefreshOutcome(u, iss, t, fudge, fault) ==
    IF TokenUsable(u.Token, u.Expire, t, fudge)
    THEN [b2 |-> u, issued |-> iss, result |-> "nil", called |-> FALSE]
    ELSE IF fault = "create"
    THEN [b2 |-> OnCreateError(u).b2, issued |-> iss,
          result |-> OnCreateError(u).result, called |-> TRUE]
    ELSE LET new  == createB2Token(t, iss)
             args == SetArgs(new, u)
         IN  IF fault = "set"
             THEN [b2 |-> u, issued |-> iss \cup {new}, result |-> "set_error", called |-> TRUE]
             ELSE [b2 |-> SetB2Token(u, args.Token, args.Expire), issued |-> iss \cup {new},
                   result |-> "nil", called |-> TRUE]

\* one whole call
refreshB2Token ==
    \E fudge \in Fudges, fault \in RefreshFaults :
        /\ Cardinality(issued) < MaxIssued
        /\ LET out == RefreshOutcome(b2, issued, now, fudge, fault)
           IN  /\ b2' = out.b2
               /\ issued' = out.issued
               /\ ret' = [op |-> "refresh", fudge |-> fudge,
                          result |-> out.result, called |-> out.called]
        /\ UNCHANGED <<uploadVars, now, pc, loc, signVars, dispVars>>

Tick ==
    /\ now < MaxTokenClock
    /\ now' = now + 1
    /\ ret' = [NoReturn EXCEPT !.op = "tick"]
    /\ UNCHANGED <<uploadVars, b2, issued, pc, loc, signVars, dispVars>>

NextToken ==
    \/ refreshB2Token
    \/ Tick

SpecToken == Init /\ [][NextToken]_vars

\* C13: a refreshB2Token call that returns nil leaves the user with a non-empty
\* token whose expiry is later than the current time, for every margin.
C13_SuccessMeansValidToken ==
    [][(ret'.op = "refresh" /\ ret'.result = "nil")
       => (b2'.Token # NoToken /\ now' < b2'.Expire)]_vars

\* C14: the stored token is usable exactly when it is non-empty and
\* now - margin < expiry; then there is no backend call and the record is left
\* alone; otherwise the backend is asked, and a successful call stores the
\* token and expiry just issued.
C14_UsableExactly ==
    [][ret'.op = "refresh"
       => LET usable == b2.Token # NoToken /\ now - ret'.fudge < b2.Expire
          IN  /\ usable => (/\ ~ret'.called /\ ret'.result = "nil"
                            /\ b2' = b2 /\ issued' = issued)
              /\ ~usable => /\ ret'.called
                            /\ ret'.result = "nil"
                                 => (/\ b2' \in issued' \ issued
                                     /\ b2'.Token # NoToken)]_vars

\* a stored token past its margin was replaced by a newly issued one
C14_Witness ==
    /\ ret.op = "refresh" /\ ret.called /\ ret.result = "nil"
    /\ b2 \in issued
    /\ \E i \in issued : i.Token < b2.Token /\ now - ret.fudge >= i.Expire

\* C15: when the backend fails to issue a token the call returns that error and
\* token and expiry stay as they were; a call never returns nil with a token
\* that is empty or that it judged unusable.
C15_BackendErrorPropagates ==
    [][ret'.op = "refresh"
       => /\ ret'.result = "create_error" => (b2' = b2 /\ issued' = issued)
          /\ (ret'.called /\ issued' = issued) => ret'.result = "create_error"
          /\ ret'.result = "nil"
               => /\ b2'.Token # NoToken
                  /\ b2' = b2 => (b2.Token # NoToken /\ now - ret'.fudge < b2.Expire)]_vars

\* the backend failed while the user held an unusable token: it is still there
C15_Witness ==
    /\ ret.op = "refresh" /\ ret.result = "create_error"
    /\ b2.Token # NoToken /\ now - ret.fudge >= b2.Expire

\* ------------------------------------ concurrent refreshB2Token calls
\* Each call works on the User value its own request loaded; the calls meet in
\* the stored record and in the backend.  The await points are createB2Token
\* and SetB2Token.
RaceFaults == {"none", "create"}

\* a request loads the user and enters refreshB2Token: the usable test
RaceCheck(p) ==
    \E fudge \in Fudges :
        /\ pc[p] = "idle"
        /\ loc' = [loc EXCEPT ![p] = b2]
        /\ pc' = [pc EXCEPT ![p] =
                    IF TokenUsable(b2.Token, b2.Expire, now, fudge) THEN "done" ELSE "create"]
        /\ UNCHANGED <<uploadVars, now, b2, issued, ret, signVars, dispVars>>

\* createB2Token returns
RaceCreate(p) ==
    \E fault \in RaceFaults :
        /\ pc[p] = "create"
        /\ IF fault = "create"
           THEN /\ pc' = [pc EXCEPT ![p] = "failed"]
                /\ UNCHANGED <<issued, loc>>
           ELSE LET new == createB2Token(now, issued)
                IN  /\ issued' = issued \cup {new}
                    /\ loc' = [loc EXCEPT ![p] = SetArgs(new, loc[p])]
                    /\ pc' = [pc EXCEPT ![p] = "set"]
        /\ UNCHANGED <<uploadVars, now, b2, ret, signVars, dispVars>>

\* SetB2Token writes the record
RaceSet(p) ==
    /\ pc[p] = "set"
    /\ b2' = SetB2Token(b2, loc[p].Token, loc[p].Expire)
    /\ pc' = [pc EXCEPT ![p] = "done"]
    /\ UNCHANGED <<uploadVars, now, issued, ret, loc, signVars, dispVars>>

RaceTick ==
    /\ now < MaxTokenClock
    /\ now' = now + 1
    /\ UNCHANGED <<uploadVars, tokenVars, signVars, dispVars>>

NextRace ==
    \/ \E p \in Procs : RaceCheck(p)
    \/ \E p \in Procs : RaceCreate(p)
    \/ \E p \in Procs : RaceSet(p)
    \/ RaceTick

SpecRace == Init /\ [][NextRace]_vars

\* C19: under any interleaving the stored token and expiry are the pair of one
\* backend issuance, the one of the call that wrote last; no issuance is ever
\* withdrawn or altered, so each token stays valid until its own expiry.
C19_LastWriteWinsWholePair ==
    [][/\ b2'.Token # NoToken => b2' \in issued'
       /\ b2' # b2 => \E p \in Procs :
                         /\ pc[p] = "set" /\ pc'[p] = "done"
                         /\ b2' = loc[p] /\ loc[p] \in issued
       /\ issued \subseteq issued'
       /\ \A i, j \in issued' : i.Token = j.Token => i = j]_vars

\* two calls raced, both succeeded, their tokens have different expiries, and
\* the record holds the pair issued first: the call that got it wrote last
C19_Witness ==
    /\ \A p \in Procs : pc[p] = "done"
    /\ b2 \in issued
    /\ \E i \in issued : i.Token > b2.Token /\ i.Expire > b2.Expire

\* ================================================== signURL, signCookie
MaxSignClock == 26   \* hours the clock runs while URLs and cookies are signed
MaxSigned == 2       \* URLs and cookie sets signed
\* signingTTL = 24 * time.Hour, in hours
signingTTL == 24
Hrefs == {"https://intertube.download/dl/a.flac"}
SignFaults == {"none", "sign"}

URLExpiresNow(t) == t
\* signURL: expires := time.Now().UTC().Add(signingTTL)
URLExpires(t) == t + signingTTL

CookieExpiresNow(t) == t
\* signCookie: expires := time.Now().UTC().Add(signingTTL)
CookieExpires(t) == t + signingTTL

\* the policy statement signed: the resource, readable while DateLessThan holds;
\* `at` remembers when it was signed
Policy(kind, href, t, expires) ==
    [kind |-> kind, Resource |-> href, DateLessThan |-> expires, at |-> t]

\* the edge verifying a signed policy at clock value t
PolicyAllows(c, t) == t < c.DateLessThan

signURL ==
    \E href \in Hrefs, fault \in SignFaults :
        /\ Cardinality(signed) < MaxSigned
        /\ signed' = IF fault = "sign" THEN signed
                     ELSE signed \cup {Policy("url", href, now, URLExpires(now))}
        /\ UNCHANGED <<uploadVars, now, tokenVars, dispVars>>

signCookie ==
    \E href \in Hrefs, fault \in SignFaults :
        /\ Cardinality(signed) < MaxSigned
        /\ signed' = IF fault = "sign" THEN signed
                     ELSE signed \cup {Policy("cookie", href, now, CookieExpires(now))}
        /\ UNCHANGED <<uploadVars, now, tokenVars, dispVars>>

SignTick ==
    /\ now < MaxSignClock
    /\ now' = now + 1
    /\ UNCHANGED <<uploadVars, tokenVars, signVars, dispVars>>

NextSign ==
    \/ signURL
    \/ signCookie
    \/ SignTick

SpecSign == Init /\ [][NextSign]_vars

\* C16: what was signed at time t expires at t + 24h, whenever it is used and
\* whatever is signed later: it is accepted while the clock is before that
\* instant and rejected once the clock is past it.
C16_AbsoluteExpiry ==
    [][/\ \A c \in signed' :
            /\ c.DateLessThan = c.at + 24
            /\ now' < c.at + 24 => PolicyAllows(c, now')
            /\ now' > c.at + 24 => ~PolicyAllows(c, now')
       /\ signed \subseteq signed']_vars

\* a URL signed at hour 0 is past its expiry and rejected while a cookie set
\* signed after it is still accepted
C16_Witness ==
    \E c, e \in signed :
        /\ c.kind = "url" /\ now > c.at + 24 /\ ~PolicyAllows(c, now)
        /\ e.kind = "cookie" /\ e.at > c.at /\ PolicyAllows(e, now)

\* ===================================================== encodeContentDisp
MaxNameLen == 4      \* characters of a filename
\* characters of filenames: a letter, the dot, the space, '+', '%', and the
\* non-ASCII U+00E9 (two bytes in UTF-8)
Chars == {"a", ".", " ", "+", "%", "U+00E9"}
Filenames == UNION {[1..n -> Chars] : n \in 0..MaxNameLen}

\* the bytes of a character in a Go string, each as its two hex digits
UTF8(c) ==
    CASE c = "a"      -> << <<"6", "1">> >>
      [] c = "."      -> << <<"2", "E">> >>
      [] c = "/"      -> << <<"2", "F">> >>
      [] c = " "      -> << <<"2", "0">> >>
      [] c = "+"      -> << <<"2", "B">> >>
      [] c = "%"      -> << <<"2", "5">> >>
      [] c = "U+00E9" -> << <<"C", "3">>, <<"A", "9">> >>
      [] OTHER        -> << <<"?", "?">> >>

\* the ASCII character of a byte
AsciiChar(b) ==
    IF \E c \in Chars \cup {"/"} : UTF8(c) = <<b>>
    THEN CHOOSE c \in Chars \cup {"/"} : UTF8(c) = <<b>>
    ELSE "?"

RECURSIVE BytesOf(_)
BytesOf(str) == IF str = <<>> THEN <<>> ELSE UTF8(Head(str)) \o BytesOf(Tail(str))

\* path.Ext: the suffix from the last dot of the last slash-separated element
RECURSIVE ExtFrom(_, _)
ExtFrom(str, i) ==
    IF i < 1 \/ str[i] = "/" THEN <<>>
    ELSE IF str[i] = "." THEN SubSeq(str, i, Len(str))
    ELSE ExtFrom(str, i - 1)
Ext(str) == ExtFrom(str, Len(str))

\* url.QueryEscape, byte by byte: letters, digits and -_.~ stay, the space
\* becomes '+', every other byte becomes %XX
Unreserved(b) == b \in {<<"6", "1">>, <<"2", "E">>}
EscapeByte(b) ==
    IF Unreserved(b) THEN <<AsciiChar(b)>>
    ELSE IF b = <<"2", "0">> THEN <<"+">>
    ELSE <<"%", b[1], b[2]>>
RECURSIVE EscapeBytes(_)
EscapeBytes(bs) == IF bs = <<>> THEN <<>> ELSE EscapeByte(Head(bs)) \o EscapeBytes(Tail(bs))
QueryEscape(str) == EscapeBytes(BytesOf(str))

\* strings.ReplaceAll for a one-character old
RECURSIVE ReplaceAll(_, _, _)
ReplaceAll(str, old, new) ==
    IF str = <<>> THEN <<>>
    ELSE (IF Head(str) = old THEN new ELSE <<Head(str)>>) \o ReplaceAll(Tail(str), old, new)

PlusKept(escaped) == escaped
\* escaped = strings.ReplaceAll(escaped, "+", "%20")
PlusToPercent20(escaped) == ReplaceAll(escaped, "+", <<"%", "2", "0">>)

\* the header value is  attachment; filename="<fallback>"; filename*=UTF-8''<extended>
encodeContentDisp(name) ==
    LET ext     == Ext(name)
        escaped == PlusToPercent20(QueryEscape(name))
    IN  [fallback |-> <<"f", "i", "l", "e">> \o ext, extended |-> escaped]

encodeContentDispCall ==
    \E name \in Filenames :
        /\ disp = NoDisp
        /\ filename' = name
        /\ disp' = encodeContentDisp(name)
        /\ UNCHANGED <<uploadVars, now, tokenVars, signVars>>

NextDisp == encodeContentDispCall

SpecDisp == Init /\ [][NextDisp]_vars

\* what a receiver does with the extended parameter: percent-decoding, then
\* reading the bytes as UTF-8
RECURSIVE PercentDecode(_)
PercentDecode(str) ==
    IF str = <<>> THEN <<>>
    ELSE IF Head(str) = "%" /\ Len(str) >= 3
         THEN << <<str[2], str[3]>> >> \o PercentDecode(SubSeq(str, 4, Len(str)))
         ELSE UTF8(Head(str)) \o PercentDecode(Tail(str))
RECURSIVE UTF8Decode(_)
UTF8Decode(bs) ==
    IF bs = <<>> THEN <<>>
    ELSE IF Len(bs) >= 2 /\ SubSeq(bs, 1, 2) = UTF8("U+00E9")
         THEN <<"U+00E9">> \o UTF8Decode(SubSeq(bs, 3, Len(bs)))
         ELSE <<AsciiChar(Head(bs))>> \o UTF8Decode(Tail(bs))

\* the extension of a name: from its last dot on, if there is a dot
OriginalExt(name) ==
    LET dots == {i \in 1..Len(name) : name[i] = "."}
    IN  IF dots = {} THEN <<>>
        ELSE SubSeq(name, CHOOSE i \in dots : \A j \in dots : j <= i, Len(name))

\* C17: decoding the extended parameter gives the filename back, the extended
\* parameter has no '+', and the fallback is "file" followed by the extension.
C17_DispRoundTrips ==
    disp # NoDisp
        => /\ UTF8Decode(PercentDecode(disp.extended)) = filename
           /\ \A i \in 1..Len(disp.extended) : disp.extended[i] # "+"
           /\ disp.fallback = <<"f", "i", "l", "e">> \o OriginalExt(filename)

\* a name with a space, a '+' and a non-ASCII character and an extension
C17_Witness ==
    /\ disp # NoDisp
    /\ \A c \in {" ", "+", "U+00E9"} : \E i \in 1..Len(filename) : filename[i] = c
    /\ Len(disp.fallback) > 4
    /\ Len(disp.extended) > Len(filename)

====
